---- MODULE Spec2Model ----
(***************************************************************************)
(* Model of client.py: a line-oriented interactive TCP client.             *)
(*                                                                         *)
(* Text is modelled as sequences of Unicode code points and socket data as *)
(* sequences of bytes (0..255); str.encode() / bytes.decode() are the      *)
(* UTF-8 conversions between the two.  The peer and the console are the    *)
(* environment: the peer may queue reply chunks, half-close or reset the   *)
(* connection at any time while the client's socket is open.               *)
(***************************************************************************)
EXTENDS Integers, Sequences, FiniteSets, TLC

\* ---------------------------------------------------------------- bounds
\* Largest number of non-exit lines the console yields in one execution.
MaxReads == 2
\* Largest number of chunks the peer writes in one execution.
MaxPeerSends == 1

\* ------------------------------------------------------- program constant
\* sock.recv(1024)
BUFSIZE == 1024

\* ------------------------------------------------------------ small helpers
SetMin(S) == CHOOSE x \in S : \A y \in S : x <= y
SetMax(S) == CHOOSE x \in S : \A y \in S : x >= y
IsPrefix(a, b) == Len(a) <= Len(b) /\ \A i \in 1..Len(a) : a[i] = b[i]

RECURSIVE Flatten(_)
\* Concatenation of a short sequence of sequences.
Flatten(ss) == IF ss = <<>> THEN <<>> ELSE Head(ss) \o Flatten(Tail(ss))

\* ------------------------------------------------------------------ int()
\* The white space int() skips around an ASCII literal.
IsSpace(c) == c \in {9, 10, 11, 12, 13, 32}
IsDigit(c) == c \in 48..57

\* str.strip() as applied by int() to its argument.
Strip(s) ==
    LET keep == {i \in 1..Len(s) : ~IsSpace(s[i])}
    IN  IF keep = {} THEN <<>> ELSE SubSeq(s, SetMin(keep), SetMax(keep))

\* Digits, with single underscores allowed between two digits.
IsDigitString(d) ==
    /\ Len(d) > 0
    /\ \A i \in 1..Len(d) :
          \/ IsDigit(d[i])
          \/ /\ d[i] = 95
             /\ i > 1 /\ i < Len(d)
             /\ IsDigit(d[i-1]) /\ IsDigit(d[i+1])

RECURSIVE DigitsValue(_)
DigitsValue(d) ==
    IF d = <<>> THEN 0
    ELSE LET n == Len(d)
             rest == SubSeq(d, 1, n - 1)
         IN  IF d[n] = 95 THEN DigitsValue(rest)
             ELSE 10 * DigitsValue(rest) + (d[n] - 48)

\* A parser that falls back to port 80 instead of raising.
IntParseLenient(s) ==
    LET t == Strip(s)
    IN  IF IsDigitString(t) THEN [ok |-> TRUE, val |-> DigitsValue(t)]
        ELSE [ok |-> TRUE, val |-> 80]

\* int(s) for a base-10 literal: ok is FALSE where int() raises ValueError.
IntParse(s) ==
    LET t == Strip(s)
        signed == Len(t) > 0 /\ t[1] \in {43, 45}
        body == IF signed THEN Tail(t) ELSE t
    IN  IF IsDigitString(body)
        THEN [ok |-> TRUE,
              val |-> IF signed /\ t[1] = 45 THEN 0 - DigitsValue(body)
                      ELSE DigitsValue(body)]
        ELSE [ok |-> FALSE, val |-> 0]

\* ------------------------------------------------------------ str.lower()
\* A comparison that forgets lower().
LowerCharNone(c) == c

\* Code points used by the model lie in ASCII and Latin-1, where lower()
\* maps exactly A-Z and the upper-case Latin-1 letters (all of 0xC0..0xDE
\* but the multiplication sign 0xD7) to the code point 32 above.
LowerChar(c) ==
    IF c \in 65..90 \/ (c \in 192..222 /\ c # 215) THEN c + 32 ELSE c

Lower(s) == [i \in 1..Len(s) |-> LowerChar(s[i])]

\* "exit"
ExitToken == <<101, 120, 105, 116>>

\* An exit test on the trimmed line.
IsExitTrimmed(m) == Lower(Strip(m)) = ExitToken

\* An exit test that also leaves on an empty line.
IsExitOrEmpty(m) == m = <<>> \/ Lower(m) = ExitToken

\* msg.lower() == "exit"
IsExit(m) == Lower(m) = ExitToken

\* ---------------------------------------------------------- UTF-8 codec
\* str.encode() and bytes.decode() with their defaults: UTF-8, errors="strict".
IsSurrogate(c) == c \in 55296..57343

\* encode() raises UnicodeEncodeError on a lone surrogate.
Encodable(s) == \A i \in 1..Len(s) : ~IsSurrogate(s[i])

EncodeChar(c) ==
    IF c < 128 THEN <<c>>
    ELSE IF c < 2048 THEN <<192 + (c \div 64), 128 + (c % 64)>>
    ELSE IF c < 65536
         THEN <<224 + (c \div 4096), 128 + ((c \div 64) % 64), 128 + (c % 64)>>
    ELSE <<240 + (c \div 262144), 128 + ((c \div 4096) % 64),
           128 + ((c \div 64) % 64), 128 + (c % 64)>>

RECURSIVE EncodeRange(_, _, _)
\* Encoding of s[lo..hi], by halving so that long texts stay shallow.
EncodeRange(s, lo, hi) ==
    IF lo > hi THEN <<>>
    ELSE IF lo = hi THEN EncodeChar(s[lo])
    ELSE LET mid == (lo + hi) \div 2
         IN  EncodeRange(s, lo, mid) \o EncodeRange(s, mid + 1, hi)

IsAscii(s) == \A i \in 1..Len(s) : s[i] < 128

\* An encoding that appends the newline the user typed.
EncodeWithNewline(s) ==
    (IF IsAscii(s) THEN s ELSE EncodeRange(s, 1, Len(s))) \o <<10>>

\* msg.encode(), defined where Encodable(s).  ASCII text encodes to itself,
\* one byte per character.
Encode(s) == IF IsAscii(s) THEN s ELSE EncodeRange(s, 1, Len(s))

IsCont(x) == x \in 128..191

\* Length of the sequence a lead byte announces; 0 for a byte that cannot lead.
SeqLen(x) ==
    IF x < 128 THEN 1
    ELSE IF x \in 194..223 THEN 2
    ELSE IF x \in 224..239 THEN 3
    ELSE IF x \in 240..244 THEN 4
    ELSE 0

\* Allowed values of the byte after a lead byte (no overlong forms, no
\* surrogates, nothing above U+10FFFF).
SecondByteOk(lead, x) ==
    IF lead = 224 THEN x \in 160..191
    ELSE IF lead = 237 THEN x \in 128..159
    ELSE IF lead = 240 THEN x \in 144..191
    ELSE IF lead = 244 THEN x \in 128..143
    ELSE IsCont(x)

\* A complete, well-formed character starts at b[i].
WellFormedAt(b, i) ==
    LET n == SeqLen(b[i])
    IN  /\ n > 0
        /\ i + n - 1 <= Len(b)
        /\ n > 1 => SecondByteOk(b[i], b[i+1])
        /\ \A k \in (i + 2)..(i + n - 1) : IsCont(b[k])

\* A continuation byte at b[i] belongs to a lead byte at most 3 places back.
CoveredAt(b, i) ==
    \E j \in (i - 3)..(i - 1) :
        /\ j >= 1
        /\ ~IsCont(b[j])
        /\ SeqLen(b[j]) > i - j
        /\ \A k \in (j + 1)..i : IsCont(b[k])

\* A decoder that rejects empty input.
Utf8ValidNonEmpty(b) ==
    /\ b # <<>>
    /\ \A i \in 1..Len(b) :
          IF IsCont(b[i]) THEN CoveredAt(b, i) ELSE WellFormedAt(b, i)

\* decode() succeeds; where this is FALSE it raises UnicodeDecodeError.
Utf8Valid(b) ==
    \A i \in 1..Len(b) :
        IF IsCont(b[i]) THEN CoveredAt(b, i) ELSE WellFormedAt(b, i)

CodePointAt(b, i) ==
    LET n == SeqLen(b[i])
    IN  IF n = 1 THEN b[i]
        ELSE IF n = 2 THEN (b[i] - 192) * 64 + (b[i+1] - 128)
        ELSE IF n = 3
             THEN (b[i] - 224) * 4096 + (b[i+1] - 128) * 64 + (b[i+2] - 128)
        ELSE (b[i] - 240) * 262144 + (b[i+1] - 128) * 4096
             + (b[i+2] - 128) * 64 + (b[i+3] - 128)

\* Characters of the valid bytes b: the code point that starts at each lead
\* byte, continuation bytes (marked -1) left out.
DecodeRange(b) ==
    SelectSeq([i \in 1..Len(b) |-> IF IsCont(b[i]) THEN -1 ELSE CodePointAt(b, i)],
              LAMBDA x : x # -1)

\* response.decode(), defined where Utf8Valid(b).  ASCII bytes decode to
\* themselves, one character per byte.
Decode(b) == IF IsAscii(b) THEN b ELSE DecodeRange(b)

\* ------------------------------------------------------------ environment
\* Command lines: sys.argv, program name first.
ProgName == <<99>>                       \* "c"
HostArg == <<104>>                       \* "h"
\* " 8_0\n", "a", "", "8.0", "8__0"
PortArgs ==
    { <<32, 56, 95, 48, 10>>, <<97>>, <<>>, <<56, 46, 48>>, <<56, 95, 95, 48>> }
\* No argument, HOST only, HOST PORT, and HOST "+80" with one argument more.
Argvs ==
    { <<ProgName>>, <<ProgName, HostArg>>,
      <<ProgName, HostArg, <<43, 56, 48>>, <<120>>>> }
    \cup { <<ProgName, HostArg, p>> : p \in PortArgs }

\* Console lines: "exit", "EXIT", "Exit", "eXiT" ...
ExitLines ==
    { <<101, 120, 105, 116>>, <<69, 88, 73, 84>>, <<69, 120, 105, 116>>,
      <<101, 88, 105, 84>> }
\* ... and " exit", "exit ", "", "ping", and a lone surrogate (what a console
\* byte that is not text becomes under errors="surrogateescape").
OtherLines ==
    { <<32, 101, 120, 105, 116>>, <<101, 120, 105, 116, 32>>, <<>>,
      <<112, 105, 110, 103>>, <<56448>> }
Lines == ExitLines \cup OtherLines

\* Chunks the peer writes: "pong" with an o-acute (5 bytes, 4 characters);
\* 2048 position-dependent ASCII bytes; and 1023 ASCII bytes followed by the
\* two bytes of "e-acute".
Pong == <<112, 195, 179, 110, 103>>
Big == [i \in 1..(2 * BUFSIZE) |-> 97 + (i % 26)]
Straddle == [i \in 1..(BUFSIZE + 1) |->
                IF i < BUFSIZE THEN 65 + (i % 26)
                ELSE IF i = BUFSIZE THEN 195 ELSE 169]
Chunks == {Pong, Big, Straddle}

\* Where input() writes its prompt: sys.stdout, or the C stderr when the
\* console is a terminal read without GNU readline.
PromptStreams == {"stdout", "stderr"}

\* ------------------------------------------------------------------ state
VARIABLES
    pc,           \* position in the script
    argv,         \* sys.argv
    HOST, PORT,   \* the two module globals
    sock,         \* "none" | "open" | "closed"
    msg,          \* the line input() returned
    response,     \* the bytes recv() returned
    rcvbuf,       \* bytes the peer wrote that recv() has not yet returned
    peer,         \* "open" | "fin" (peer closed its side) | "reset"
    peerSent,     \* every byte the peer wrote, in order
    sent,         \* the byte strings passed to sendall(), in order
    out,          \* output events, in order
    status,       \* process exit status; -1 while running
    promptStream, \* stream input() prompts on
    nconnect,     \* connect attempts
    nrecv,        \* recv() calls that returned
    nlines,       \* non-exit lines read from the console
    npeer,        \* chunks the peer wrote
    cause         \* how the run left the script: "" while running

vars == <<pc, argv, HOST, PORT, sock, msg, response, rcvbuf, peer, peerSent,
          sent, out, status, promptStream, nconnect, nrecv, nlines, npeer, cause>>

\* Prints that all forget their file argument and go to sys.stdout.
EventAllStdout(stream, kind, text) ==
    [stream |-> "stdout", kind |-> kind, text |-> text]

Event(stream, kind, text) == [stream |-> stream, kind |-> kind, text |-> text]

Init ==
    /\ pc = "start"
    /\ argv \in Argvs
    /\ HOST = <<>>
    /\ PORT = 0
    /\ sock = "none"
    /\ msg = <<>>
    /\ response = <<>>
    /\ rcvbuf = <<>>
    /\ peer = "open"
    /\ peerSent = <<>>
    /\ sent = <<>>
    /\ out = <<>>
    /\ status = -1
    /\ promptStream \in PromptStreams
    /\ nconnect = 0
    /\ nrecv = 0
    /\ nlines = 0
    /\ npeer = 0
    /\ cause = ""

\* ---------------------------------------------------------- the script
\* A with block that forgets the socket: it stays open when the block is left.
WithExitLeak == "open"

\* The socket after the with block is left, by break or by an exception:
\* socket.__exit__ closes it.
WithExit == "closed"

\* An exception nobody catches: the interpreter prints the traceback on
\* stderr and exits with status 1.
Uncaught(why) ==
    /\ out' = Append(out, Event("stderr", "traceback", <<>>))
    /\ status' = 1
    /\ cause' = why
    /\ pc' = "done"

\* An exception raised inside the with block: the block is left first.
RaiseInWith(why) ==
    /\ sock' = WithExit
    /\ Uncaught(why)

\* sys.argv[k] raises IndexError.
ArgMissing(k) == k + 1 > Len(argv)

\* A usage message sent where the other notices go.
UsageStreamStderr == "stderr"

\* print("Usage: ...") has no file argument: it writes to sys.stdout.
UsageStream == "stdout"

\* Lines 8-13: the try block and its IndexError handler.
ParseArgs ==
    /\ pc = "start"
    /\ IF ArgMissing(1) \/ ArgMissing(2)
       THEN /\ out' = Append(out, Event(UsageStream, "usage", <<>>))
            /\ status' = 1
            /\ cause' = "usage"
            /\ pc' = "done"
            /\ UNCHANGED <<HOST, PORT>>
       ELSE IF ~IntParse(argv[3]).ok
       THEN /\ Uncaught("ValueError")
            /\ HOST' = argv[2]
            /\ UNCHANGED PORT
       ELSE /\ HOST' = argv[2]
            /\ PORT' = IntParse(argv[3]).val
            /\ pc' = "connect"
            /\ UNCHANGED <<out, status, cause>>
    /\ UNCHANGED <<argv, sock, msg, response, rcvbuf, peer, peerSent, sent,
                   promptStream, nconnect, nrecv, nlines, npeer>>

\* A connect that is tried again after a failure.
ConnectRetrying ==
    /\ pc = "connect"
    /\ nconnect' = nconnect + 1
    /\ \/ /\ sock' = "open"
          /\ pc' = "banner"
       \/ /\ pc' = "connect"
          /\ UNCHANGED sock
    /\ UNCHANGED <<argv, HOST, PORT, msg, response, rcvbuf, peer, peerSent,
                   sent, out, status, promptStream, nrecv, nlines, npeer, cause>>

\* Line 15: socket.create_connection((HOST, PORT)), entering the with block;
\* whether the connect succeeds is the environment's choice.
Connect ==
    /\ pc = "connect"
    /\ nconnect' = nconnect + 1
    /\ \/ /\ sock' = "open"
          /\ pc' = "banner"
          /\ UNCHANGED <<out, status, cause>>
       \/ /\ Uncaught("connect")
          /\ UNCHANGED sock
    /\ UNCHANGED <<argv, HOST, PORT, msg, response, rcvbuf, peer, peerSent,
                   sent, promptStream, nrecv, nlines, npeer>>

\* A script that goes to the loop without the confirmation.
BannerSkipped ==
    /\ pc = "banner"
    /\ pc' = "prompt"
    /\ UNCHANGED <<argv, HOST, PORT, sock, msg, response, rcvbuf, peer,
                   peerSent, sent, out, status, promptStream, nconnect, nrecv,
                   nlines, npeer, cause>>

\* Line 16: the confirmation and the hint, on stderr.
Banner ==
    /\ pc = "banner"
    /\ out' = Append(out, Event("stderr", "connected", <<>>))
    /\ pc' = "prompt"
    /\ UNCHANGED <<argv, HOST, PORT, sock, msg, response, rcvbuf, peer,
                   peerSent, sent, status, promptStream, nconnect, nrecv,
                   nlines, npeer, cause>>

\* Line 18: msg = input("> ") on a console that yields lines of L.  The
\* prompt is written, then a line is read; at end-of-file input() raises
\* EOFError.
ReadLineFrom(L) ==
    /\ pc = "prompt"
    /\ \/ /\ \E l \in L :
                /\ IsExit(l) \/ nlines < MaxReads
                /\ msg' = l
                /\ nlines' = IF IsExit(l) THEN nlines ELSE nlines + 1
          /\ out' = Append(out, Event(promptStream, "prompt", <<>>))
          /\ pc' = "test"
          /\ UNCHANGED <<sock, status, cause>>
       \/ /\ out' = out \o <<Event(promptStream, "prompt", <<>>),
                             Event("stderr", "traceback", <<>>)>>
          /\ sock' = WithExit
          /\ status' = 1
          /\ cause' = "EOFError"
          /\ pc' = "done"
          /\ UNCHANGED <<msg, nlines>>
    /\ UNCHANGED <<argv, HOST, PORT, response, rcvbuf, peer, peerSent, sent,
                   promptStream, nconnect, nrecv, npeer>>

ReadLine == ReadLineFrom(Lines)

\* An exit test that closes the socket but forgets to break.
ExitTestNoBreak ==
    /\ pc = "test"
    /\ sock' = IF IsExit(msg) THEN "closed" ELSE sock
    /\ pc' = "send"
    /\ UNCHANGED <<argv, HOST, PORT, msg, response, rcvbuf, peer, peerSent,
                   sent, out, status, promptStream, nconnect, nrecv, nlines,
                   npeer, cause>>

\* Lines 19-20: the exit test; break leaves the with block.
ExitTest ==
    /\ pc = "test"
    /\ IF IsExit(msg)
       THEN /\ sock' = WithExit
            /\ pc' = "notice"
       ELSE /\ pc' = "send"
            /\ UNCHANGED sock
    /\ UNCHANGED <<argv, HOST, PORT, msg, response, rcvbuf, peer, peerSent,
                   sent, out, status, promptStream, nconnect, nrecv, nlines,
                   npeer, cause>>

\* Line 21: sock.sendall(msg.encode()).
Send ==
    /\ pc = "send"
    /\ IF ~Encodable(msg)
       THEN /\ RaiseInWith("UnicodeEncodeError")
            /\ UNCHANGED sent
       ELSE IF peer = "reset"
       THEN /\ RaiseInWith("send")
            /\ UNCHANGED sent
       ELSE /\ sent' = Append(sent, Encode(msg))
            /\ pc' = "recv"
            /\ UNCHANGED <<sock, out, status, cause>>
    /\ UNCHANGED <<argv, HOST, PORT, msg, response, rcvbuf, peer, peerSent,
                   promptStream, nconnect, nrecv, nlines, npeer>>

\* What one recv(n) takes from the unread bytes.
RecvTake(buf, n) == SubSeq(buf, 1, IF Len(buf) < n THEN Len(buf) ELSE n)
\* A receive that drops the byte after the ones it returns.
RecvRestOffByOne(buf, n) ==
    SubSeq(buf, (IF Len(buf) < n THEN Len(buf) ELSE n) + 2, Len(buf))

RecvRest(buf, n) == SubSeq(buf, (IF Len(buf) < n THEN Len(buf) ELSE n) + 1, Len(buf))

\* A receive on a socket with a timeout: it gives up with no bytes instead of
\* blocking.
RecvNonBlocking ==
    /\ pc = "recv"
    /\ IF peer = "reset"
       THEN /\ RaiseInWith("recv")
            /\ UNCHANGED <<response, rcvbuf, nrecv>>
       ELSE /\ response' = RecvTake(rcvbuf, BUFSIZE)
            /\ rcvbuf' = RecvRest(rcvbuf, BUFSIZE)
            /\ nrecv' = nrecv + 1
            /\ pc' = "print"
            /\ UNCHANGED <<sock, out, status, cause>>
    /\ UNCHANGED <<argv, HOST, PORT, msg, peer, peerSent, sent, promptStream,
                   nconnect, nlines, npeer>>

\* Line 22: response = sock.recv(1024).  Blocks while nothing is unread and
\* the peer has neither closed nor reset.
Recv ==
    /\ pc = "recv"
    /\ IF peer = "reset"
       THEN /\ RaiseInWith("recv")
            /\ UNCHANGED <<response, rcvbuf, nrecv>>
       ELSE /\ rcvbuf # <<>> \/ peer = "fin"
            /\ response' = RecvTake(rcvbuf, BUFSIZE)
            /\ rcvbuf' = RecvRest(rcvbuf, BUFSIZE)
            /\ nrecv' = nrecv + 1
            /\ pc' = "print"
            /\ UNCHANGED <<sock, out, status, cause>>
    /\ UNCHANGED <<argv, HOST, PORT, msg, peer, peerSent, sent, promptStream,
                   nconnect, nlines, npeer>>

\* A print step that goes back to receive while bytes are unread.
PrintResponseDrain ==
    /\ pc = "print"
    /\ IF Utf8Valid(response)
       THEN /\ out' = Append(out, Event("stdout", "response", Decode(response)))
            /\ pc' = IF rcvbuf # <<>> THEN "recv" ELSE "prompt"
            /\ UNCHANGED <<sock, status, cause>>
       ELSE RaiseInWith("UnicodeDecodeError")
    /\ UNCHANGED <<argv, HOST, PORT, msg, response, rcvbuf, peer, peerSent,
                   sent, promptStream, nconnect, nrecv, nlines, npeer>>

\* Line 23: print(response.decode(), file=sys.stdout).
PrintResponse ==
    /\ pc = "print"
    /\ IF Utf8Valid(response)
       THEN /\ out' = Append(out, Event("stdout", "response", Decode(response)))
            /\ pc' = "prompt"
            /\ UNCHANGED <<sock, status, cause>>
       ELSE RaiseInWith("UnicodeDecodeError")
    /\ UNCHANGED <<argv, HOST, PORT, msg, response, rcvbuf, peer, peerSent,
                   sent, promptStream, nconnect, nrecv, nlines, npeer>>

\* Line 25: the closing notice, then the script ends (status 0).
Notice ==
    /\ pc = "notice"
    /\ out' = Append(out, Event("stderr", "closed", <<>>))
    /\ status' = 0
    /\ cause' = "exit"
    /\ pc' = "done"
    /\ UNCHANGED <<argv, HOST, PORT, sock, msg, response, rcvbuf, peer,
                   peerSent, sent, promptStream, nconnect, nrecv, nlines, npeer>>

\* ------------------------------------------------------------- the peer
\* The peer writes one chunk of C.
PeerWriteFrom(C) ==
    /\ sock = "open" /\ peer = "open"
    /\ npeer < MaxPeerSends
    /\ \E c \in C :
          /\ rcvbuf' = rcvbuf \o c
          /\ peerSent' = peerSent \o c
    /\ npeer' = npeer + 1
    /\ UNCHANGED <<pc, argv, HOST, PORT, sock, msg, response, peer, sent, out,
                   status, promptStream, nconnect, nrecv, nlines, cause>>

PeerWrite == PeerWriteFrom(Chunks)

PeerClose ==
    /\ sock = "open" /\ peer = "open"
    /\ peer' = "fin"
    /\ UNCHANGED <<pc, argv, HOST, PORT, sock, msg, response, rcvbuf, peerSent,
                   sent, out, status, promptStream, nconnect, nrecv, nlines,
                   npeer, cause>>

PeerReset ==
    /\ sock = "open" /\ peer \in {"open", "fin"}
    /\ peer' = "reset"
    /\ UNCHANGED <<pc, argv, HOST, PORT, sock, msg, response, rcvbuf, peerSent,
                   sent, out, status, promptStream, nconnect, nrecv, nlines,
                   npeer, cause>>

Next ==
    \/ ParseArgs
    \/ Connect
    \/ Banner
    \/ ReadLine
    \/ ExitTest
    \/ Send
    \/ Recv
    \/ PrintResponse
    \/ Notice
    \/ PeerWrite
    \/ PeerClose
    \/ PeerReset

Spec == Init /\ [][Next]_vars

\* The script's own steps.  It is one thread that runs whenever it is not
\* blocked in input() or recv(): weak fairness on its steps.
ClientNext ==
    \/ ParseArgs
    \/ Connect
    \/ Banner
    \/ ReadLine
    \/ ExitTest
    \/ Send
    \/ Recv
    \/ PrintResponse
    \/ Notice

\* The peer of the liveness runs replies with "pong" or with the chunk that
\* cannot be decoded, closes, resets or stays silent.
PeerReply == PeerWriteFrom({Pong, Straddle})

NextLive ==
    \/ ClientNext
    \/ PeerReply
    \/ PeerClose
    \/ PeerReset

LiveSpec == Init /\ [][NextLive]_vars /\ WF_vars(ClientNext)

\* ------------------------------------------------------- an echoing peer
\* The console of the echo sessions: the lines above and "p" + "e-acute".
EchoLines == Lines \cup { <<112, 233>> }

ReadLineEcho == ReadLineFrom(EchoLines)

\* A peer that writes back, in one piece, the bytes it has received and not
\* yet echoed, and does nothing else.
PeerEcho ==
    /\ sock = "open" /\ peer = "open"
    /\ Len(peerSent) < Len(Flatten(sent))
    /\ LET got == Flatten(sent)
           rest == SubSeq(got, Len(peerSent) + 1, Len(got))
       IN  /\ rcvbuf' = rcvbuf \o rest
           /\ peerSent' = peerSent \o rest
    /\ npeer' = npeer + 1
    /\ UNCHANGED <<pc, argv, HOST, PORT, sock, msg, response, peer, sent, out,
                   status, promptStream, nconnect, nrecv, nlines, cause>>

NextEcho ==
    \/ ParseArgs
    \/ Connect
    \/ Banner
    \/ ReadLineEcho
    \/ ExitTest
    \/ Send
    \/ Recv
    \/ PrintResponse
    \/ Notice
    \/ PeerEcho

SpecEcho == Init /\ [][NextEcho]_vars

\* ================================================================ claims
LastOut == out[Len(out)]
Printed(kind) == \E i \in 1..Len(out) : out[i].kind = kind
ClosedNotice == Event("stderr", "closed", <<>>)

\* C1: once the connect has succeeded, the process never leaves the with
\* block (by exit, by end-of-input or by a failing send, receive, encode or
\* decode) with the socket still open; an execution that ends has it closed.
C1_SocketClosedOnEveryExit ==
    (pc \in {"notice", "done"} /\ Printed("connected")) => sock = "closed"

\* A run ended by a decode failure inside the loop, socket closed.
C1_Witness ==
    pc = "done" /\ cause = "UnicodeDecodeError" /\ sock = "closed"

\* C2 (as claimed): whenever the process has ended after a successful connect
\* (by exit, end-of-input or an unhandled error), the closing notice on
\* stderr is its last output event.
C2_ClosingNoticeLast ==
    (pc = "done" /\ sock = "closed") => (out # <<>> /\ LastOut = ClosedNotice)

\* C3 (as claimed): end-of-file at the prompt ends the loop normally: every
\* line read before was sent and nothing more, the socket is closed, the
\* closing notice is printed and there is no error exit.
C3_EofExitsNormally ==
    (pc = "done" /\ cause = "EOFError") =>
        /\ Len(sent) = nlines
        /\ sock = "closed"
        /\ Printed("closed")
        /\ ~Printed("traceback")
        /\ status = 0

\* C4: with fewer than two arguments the process prints the usage message on
\* stdout and nothing else, exits with status 1, and never connects, sends or
\* receives.
C4_UsageOnMissingArgs ==
    (pc # "start" /\ Len(argv) < 3) =>
        /\ pc = "done"
        /\ status = 1
        /\ out = <<Event("stdout", "usage", <<>>)>>
        /\ nconnect = 0 /\ sock = "none"
        /\ sent = <<>> /\ nrecv = 0

\* HOST only: the usage exit.
C4_Witness ==
    pc = "done" /\ argv = <<ProgName, HostArg>> /\ status = 1 /\ Printed("usage")

\* The four letters e, x, i, t, each in either case.
AnyCaseExit(m) ==
    /\ Len(m) = 4
    /\ m[1] \in {101, 69} /\ m[2] \in {120, 88}
    /\ m[3] \in {105, 73} /\ m[4] \in {116, 84}

\* C5: after a line spelling exit in any letter case has been read, no step
\* sends, receives or reads the console again: the script only goes on to
\* leave the loop and end.
C5_ExitNeverSent ==
    [][AnyCaseExit(msg) =>
          /\ pc' \in {"test", "notice", "done"}
          /\ sent' = sent
          /\ nrecv' = nrecv
          /\ msg' = msg /\ nlines' = nlines
          /\ out' = out \/ out' = Append(out, ClosedNotice)]_vars

\* "eXiT" typed after a line had been sent: the loop is left, one send in all.
C5_Witness ==
    pc = "notice" /\ msg = <<101, 88, 105, 84>> /\ Len(sent) = 1 /\ sock = "closed"

\* C6 (as claimed): a line that equals exit once trimmed never gets past the
\* exit test to the send.
C6_TrimmedExitTest ==
    AnyCaseExit(Strip(msg)) => pc \notin {"send", "recv", "print"}

\* C6 (amended): the exit test is applied to the line as read, untrimmed.
\* Exactly the lines spelling exit (any letter case, nothing around it) leave
\* the loop; " exit" and "exit " pass the test and are sent with their blank.
C6_UntrimmedExitTest ==
    /\ pc \in {"send", "recv", "print"} => ~AnyCaseExit(msg)
    /\ pc = "notice" => AnyCaseExit(msg)
    /\ (pc = "recv" /\ AnyCaseExit(Strip(msg))) =>
          (sent # <<>> /\ sent[Len(sent)] = msg /\ Len(msg) = 5)

\* " exit" has been sent, blank included, and the client waits for the reply.
C6_Witness ==
    /\ pc = "recv" /\ msg = <<32, 101, 120, 105, 116>>
    /\ sent[Len(sent)] = <<32, 101, 120, 105, 116>>
    /\ sock = "open"

\* C7: a receive at end-of-stream (peer closed, nothing unread) returns zero
\* bytes without error, and the empty response is printed as an empty line on
\* stdout with the client back at the prompt, socket open, still running.
C7_ZeroByteReceiveContinues ==
    [][/\ (pc = "recv" /\ peer = "fin" /\ rcvbuf = <<>> /\ pc' # "recv") =>
              (pc' = "print" /\ response' = <<>> /\ sock' = "open" /\ status' = -1)
       /\ (pc = "print" /\ response = <<>> /\ pc' # "print") =>
              /\ pc' = "prompt" /\ sock' = "open" /\ status' = -1
              /\ out' = Append(out, Event("stdout", "response", <<>>))]_vars

\* Back at the prompt after the empty line, peer closed, socket open.
C7_Witness ==
    /\ pc = "prompt" /\ peer = "fin" /\ sock = "open" /\ nrecv > 0
    /\ LastOut = Event("stdout", "response", <<>>)

\* The bytes of the responses printed so far, in order.
PrintedBytes ==
    Flatten([i \in 1..Len(out) |->
                IF out[i].kind = "response" THEN Encode(out[i].text) ELSE <<>>])

\* C8: one receive returns at most 1024 bytes; what was received and printed,
\* then what was received and not yet printed, then what is still unread, is
\* exactly what the peer wrote; the printed responses are always a prefix of it.
C8_ReceiveKeepsStreamOrder ==
    LET printed == PrintedBytes
        pending == IF pc = "print" THEN response ELSE <<>>
    IN  /\ Len(response) <= BUFSIZE
        /\ Len(peerSent) - Len(rcvbuf) <= BUFSIZE * nrecv
        /\ IsPrefix(printed, peerSent)
        /\ status = -1 => printed \o pending \o rcvbuf = peerSent

\* The 2048-byte chunk printed as its first, then its last 1024 bytes.
C8_Witness ==
    /\ peerSent = Big
    /\ \E i, j \in 1..Len(out) :
          /\ i < j
          /\ out[i] = Event("stdout", "response", SubSeq(Big, 1, BUFSIZE))
          /\ out[j] = Event("stdout", "response", SubSeq(Big, BUFSIZE + 1, 2 * BUFSIZE))
          /\ \A k \in (i + 1)..(j - 1) : out[k].kind = "prompt"

\* C9 (as claimed): status 1 when arguments are missing, 0 when the session
\* ends by exit or by end-of-input, non-zero when the port does not parse or
\* the connect fails.
C9_ExitStatus ==
    pc = "done" =>
        /\ Len(argv) < 3 => status = 1
        /\ cause \in {"exit", "EOFError"} => status = 0
        /\ cause \in {"ValueError", "connect"} => status \notin {0, -1}

\* "a", "", "8.0", "8__0": not base-10 integers.
BadPorts == { <<97>>, <<>>, <<56, 46, 48>>, <<56, 95, 95, 48>> }

\* C10: with a PORT that is not an integer the process ends at once with only
\* a traceback and a non-zero status: no usage message, no connect attempt
\* with any port, no socket.
C10_BadPortIsFatal ==
    (pc # "start" /\ Len(argv) >= 3 /\ argv[3] \in BadPorts) =>
        /\ pc = "done"
        /\ status \notin {0, -1}
        /\ out = <<Event("stderr", "traceback", <<>>)>>
        /\ nconnect = 0 /\ sock = "none"

\* PORT "8.0": ended by ValueError.
C10_Witness ==
    pc = "done" /\ argv = <<ProgName, HostArg, <<56, 46, 48>>>> /\ cause = "ValueError"

\* C11: at most one connect attempt is ever made, and exactly one once the
\* arguments have parsed and the connect has been passed.  A failed connect
\* ends the process at once, non-zero, with nothing but the traceback: no
\* confirmation, no prompt, no send, no receive, no socket.
C11_SingleConnectNoRetry ==
    /\ nconnect <= 1
    /\ pc \in {"banner", "prompt", "test", "send", "recv", "print", "notice"}
          => nconnect = 1
    /\ cause = "connect" =>
          /\ pc = "done" /\ nconnect = 1
          /\ status \notin {0, -1}
          /\ out = <<Event("stderr", "traceback", <<>>)>>
          /\ sock = "none" /\ sent = <<>> /\ nrecv = 0 /\ nlines = 0

\* A run ended by the failed connect.
C11_Witness ==
    pc = "done" /\ cause = "connect" /\ nconnect = 1 /\ status = 1

\* C12: the socket only moves none -> open -> closed.  No step reopens or
\* forgets it, and once it is closed no step sends, receives or connects.
C12_LifecycleForwardOnly ==
    [][/\ sock = "none" => sock' \in {"none", "open"}
       /\ sock = "open" => sock' \in {"open", "closed"}
       /\ sock = "closed" =>
             /\ sock' = "closed"
             /\ sent' = sent /\ nrecv' = nrecv /\ nconnect' = nconnect
             /\ pc' \in {"notice", "done"}
       /\ nconnect' <= 1]_vars

\* Closed after a session in which a line was sent and a reply received.
C12_Witness ==
    pc = "done" /\ sock = "closed" /\ cause = "exit" /\ Len(sent) > 0 /\ nrecv > 0

\* Number of response lines printed so far.
NResponses == Cardinality({i \in 1..Len(out) : out[i].kind = "response"})

\* C13 (as claimed; the interpreter's traceback aside): stderr carries only
\* the confirmation and the closing notice, stdout carries only the usage
\* message and the response lines, and back at the prompt there is exactly one
\* response line per receive call.
C13_StreamsKeptApart ==
    /\ \A i \in 1..Len(out) :
          /\ (out[i].stream = "stderr" /\ out[i].kind # "traceback")
                => out[i].kind \in {"connected", "closed"}
          /\ out[i].stream = "stdout" => out[i].kind \in {"usage", "response"}
    /\ pc = "prompt" => NResponses = nrecv

\* C14: wherever the script is at or past the first prompt (a prompt shown, a
\* line read, a byte sent), the confirmation on stderr is the first output
\* event of the run.
C14_BannerBeforeFirstPrompt ==
    (\/ pc \in {"prompt", "test", "send", "recv", "print", "notice"}
     \/ Printed("prompt") \/ nlines > 0 \/ sent # <<>>)
        => (out # <<>> /\ out[1] = Event("stderr", "connected", <<>>))

\* The first line has just been read: confirmation, then the first prompt.
C14_Witness ==
    /\ pc = "test"
    /\ Len(out) = 2
    /\ out[1] = Event("stderr", "connected", <<>>)
    /\ out[2].kind = "prompt"

\* C16: the loop runs read, send, receive, print in that order, one of each
\* per non-exit line: at every position the numbers of sends, receives and
\* printed responses are fixed by the number of non-exit lines read, and at
\* the prompt all four are equal.
C16_StrictSequence ==
    /\ pc = "prompt" =>
          (Len(sent) = nlines /\ nrecv = nlines /\ NResponses = nlines)
    /\ pc = "send" =>
          (Len(sent) = nlines - 1 /\ nrecv = nlines - 1 /\ NResponses = nlines - 1)
    /\ pc = "recv" =>
          (Len(sent) = nlines /\ nrecv = nlines - 1 /\ NResponses = nlines - 1)
    /\ pc = "print" =>
          (Len(sent) = nlines /\ nrecv = nlines /\ NResponses = nlines - 1)

\* At the prompt after two full iterations.
C16_Witness ==
    pc = "prompt" /\ nlines = 2 /\ Len(sent) = 2 /\ nrecv = 2 /\ NResponses = 2

\* C13 (amended): the prompt aside, the streams are kept apart.  Every "> "
\* prompt goes to the one stream input() uses in this run; apart from it and
\* from the traceback, stderr carries only the confirmation and the closing
\* notice and stdout only the usage message and the response lines, one per
\* receive call once the script is back at the prompt.
C13_StreamsApartFromPrompt ==
    /\ \A i \in 1..Len(out) :
          /\ out[i].kind = "prompt" => out[i].stream = promptStream
          /\ (out[i].stream = "stderr" /\ out[i].kind \notin {"traceback", "prompt"})
                => out[i].kind \in {"connected", "closed"}
          /\ (out[i].stream = "stdout" /\ out[i].kind # "prompt")
                => out[i].kind \in {"usage", "response"}
    /\ pc = "prompt" => NResponses = nrecv
    /\ Printed("prompt") \/ ~Printed("response")

\* A prompt, a response line and a second prompt's turn, all on stdout.
C13_Witness ==
    /\ pc = "prompt" /\ promptStream = "stdout" /\ NResponses = 1
    /\ \E i \in 1..Len(out) : out[i] = Event("stdout", "prompt", <<>>)

\* "ping" and "p" + "e-acute"
Ping == <<112, 105, 110, 103>>

\* C15: a send passes on exactly the encoding of the line read, nothing
\* appended (an ASCII line byte for byte, "p" + "e-acute" as 70 C3 A9), and
\* against the echoing peer the response printed is the line as typed.
C15_SendsExactEncoding ==
    [][/\ (pc = "send" /\ pc' = "recv") =>
             /\ Len(sent') = Len(sent) + 1
             /\ SubSeq(sent', 1, Len(sent)) = sent
             /\ IsAscii(msg) => sent'[Len(sent')] = msg
             /\ msg = <<112, 233>> => sent'[Len(sent')] = <<112, 195, 169>>
       /\ (pc = "print" /\ pc' = "prompt") =>
             out' = Append(out, Event("stdout", "response", msg))]_vars

\* "ping" echoed and printed back.
C15_Witness ==
    /\ pc = "prompt" /\ msg = Ping
    /\ sent[Len(sent)] = Ping
    /\ LastOut = Event("stdout", "response", Ping)

\* C17: while the client is in recv with nothing unread and the peer neither
\* closed nor reset, no step of the script happens: it does not prompt, read,
\* send, print, close or end.  And if every receive returns, the socket, once
\* open, is eventually closed.
C17_ReceiveBlocksWithoutTimeout ==
    /\ [][(pc = "recv" /\ rcvbuf = <<>> /\ peer = "open") =>
             /\ pc' = "recv" /\ sock' = "open" /\ status' = -1
             /\ UNCHANGED <<msg, response, sent, out, nlines, nrecv>>]_vars
    /\ ((pc = "recv") ~> (pc # "recv")) => ((sock = "open") ~> (sock = "closed"))

\* Blocked in recv: a line sent, nothing unread, peer silent and open.
C17_Witness ==
    /\ pc = "recv" /\ rcvbuf = <<>> /\ peer = "open" /\ sock = "open"
    /\ Len(sent) = 1 /\ status = -1

\* C18: an empty line passes the exit test, is sent as zero bytes (the peer
\* gets nothing to reply to), and with nothing unread the client then stays
\* in recv: no step takes it back to the prompt.
C18_EmptyLineBlocks ==
    [][/\ (pc = "test" /\ msg = <<>> /\ pc' # "test") =>
             (pc' = "send" /\ sock' = "open")
       /\ (pc = "send" /\ msg = <<>> /\ pc' # "send") =>
             /\ pc' = "recv"
             /\ sent' = Append(sent, <<>>)
             /\ Flatten(sent') = Flatten(sent)
       /\ (pc = "recv" /\ msg = <<>> /\ rcvbuf = <<>>) =>
             (pc' = "recv" /\ sock' = "open" /\ out' = out /\ nrecv' = nrecv)]_vars

\* "ping" was echoed and printed, then an empty line was sent: blocked.
C18_Witness ==
    /\ pc = "recv" /\ msg = <<>> /\ sent = <<Ping, <<>>>>
    /\ rcvbuf = <<>> /\ nrecv = 1 /\ sock = "open"

====
